---- MODULE Spec2Model ----
(***************************************************************************)
(* Model of server.js: the express todo API with JWT authentication, the   *)
(* in-memory token blacklist (invalidatedTokens) and the owner-scoped      *)
(* todo queries.                                                           *)
(*                                                                         *)
(* Strings the handlers inspect character by character (title and          *)
(* description) are sequences of one-character strings; Absent stands for  *)
(* the JavaScript value undefined.  Every word of an Authorization header  *)
(* is a record of one shape, so that a JWT and a plain word can stand in   *)
(* the same header.  The clock counts seconds.                             *)
(***************************************************************************)
EXTENDS Integers, Sequences, FiniteSets, TLC

\* ------------------------------------------------------------------ bounds
MaxUsers == 2
MaxTime == 2
MaxIssued == 2
MaxTodos == 1
MaxInflight == 1
MaxSeconds == 1

\* ------------------------------------------------------- program constants
\* expiresIn: "1h", in the seconds that iat and exp count
ExpiresIn == 3600
secretKey == "Hello123"
otherKey == "not-the-secret"

VARIABLES
    users,              \* the User collection: a sequence, _id = position
    todos,              \* the Todo collection: a set of documents
    nextTodoId,         \* the next _id the Todo collection hands out
    invalidatedTokens,  \* the blacklist array
    now,                \* the system clock
    issued,             \* tokens that login responses handed to clients
    inflight,           \* requests past authenticateToken, awaiting the database
    last                \* the step just taken: the request and its response

vars == <<users, todos, nextTodoId, invalidatedTokens, now, issued, inflight, last>>

Range(s) == {s[i] : i \in 1..Len(s)}

\* ----------------------------------------------------------- input domains
Usernames == {"alice", "bob"}
Passwords == {"pw1", "pw2"}
Absent == <<"<undefined>">>
NoStatus == "<undefined>"
Descriptions == {<<"d">>}
StatusEnum == {"pending", "completed"}

\* --------------------------------------------------------- header and token
Word(s) ==
    [fmt |-> "text", txt |-> s, userId |-> 0, iat |-> 0, exp |-> 0, key |-> ""]

Undefined ==
    [fmt |-> "undefined", txt |-> "", userId |-> 0, iat |-> 0, exp |-> 0, key |-> ""]

\* jwt.sign({ userId }, key, { expiresIn: "1h" }) at clock value t
jwtSign_WrongSubject(uid, key, t) ==
    [fmt |-> "jwt", txt |-> "", userId |-> (uid % MaxUsers) + 1, iat |-> t,
     exp |-> t + ExpiresIn, key |-> key]

jwtSign(uid, key, t) ==
    [fmt |-> "jwt", txt |-> "", userId |-> uid, iat |-> t,
     exp |-> t + ExpiresIn, key |-> key]

NoUser == [userId |-> 0, iat |-> 0, exp |-> 0]

\* jwt.verify(token, key): the error name and the decoded payload
jwtVerify_NoExpiry(token, key, t) ==
    IF token.fmt # "jwt" THEN [err |-> "JsonWebTokenError: jwt malformed", user |-> NoUser]
    ELSE IF token.key # key
        THEN [err |-> "JsonWebTokenError: invalid signature", user |-> NoUser]
    ELSE [err |-> "",
          user |-> [userId |-> token.userId, iat |-> token.iat, exp |-> token.exp]]

jwtVerify(token, key, t) ==
    IF token.fmt # "jwt" THEN [err |-> "JsonWebTokenError: jwt malformed", user |-> NoUser]
    ELSE IF token.key # key
        THEN [err |-> "JsonWebTokenError: invalid signature", user |-> NoUser]
    ELSE IF t >= token.exp
        THEN [err |-> "TokenExpiredError: jwt expired", user |-> NoUser]
    ELSE [err |-> "",
          user |-> [userId |-> token.userId, iat |-> token.iat, exp |-> token.exp]]

\* authHeader && authHeader.split(" ")[1]; the header is its list of words
\* (what split(" ") returns), <<>> is the absent header, <<Word("")>> the
\* empty one and <<Word("Bearer"), Word("")>> is "Bearer "
ExtractToken(h) ==
    IF h = <<>> THEN Undefined
    ELSE IF h = <<Word("")>> THEN Word("")
    ELSE IF Len(h) >= 2 THEN h[2]
    ELSE Undefined

\* !token
Falsy(token) == token = Undefined \/ token = Word("")

\* invalidatedTokens.includes(token)
IsInvalidated_ByUser(token) ==
    \E t \in Range(invalidatedTokens) : t.userId = token.userId

IsInvalidated_Never(token) == FALSE

IsInvalidated(token) == token \in Range(invalidatedTokens)

\* authenticateToken: status 0 is next(), with req.user bound
authenticateToken_VerifyFirst(h) ==
    LET token == ExtractToken(h)
        v == jwtVerify(token, secretKey, now)
    IN  IF Falsy(token) THEN [status |-> 401, msg |-> "Unauthorized", user |-> NoUser]
        ELSE IF v.err # "" THEN [status |-> 403, msg |-> "Forbidden", user |-> NoUser]
        ELSE IF IsInvalidated(token)
            THEN [status |-> 401, msg |-> "Token has been invalidated", user |-> NoUser]
        ELSE [status |-> 0, msg |-> "", user |-> v.user]

authenticateToken(h) ==
    LET token == ExtractToken(h)
        v == jwtVerify(token, secretKey, now)
    IN  IF Falsy(token) THEN [status |-> 401, msg |-> "Unauthorized", user |-> NoUser]
        ELSE IF IsInvalidated(token)
            THEN [status |-> 401, msg |-> "Token has been invalidated", user |-> NoUser]
        ELSE IF v.err # "" THEN [status |-> 403, msg |-> "Forbidden", user |-> NoUser]
        ELSE [status |-> 0, msg |-> "", user |-> v.user]

\* the token strings a client can put in a header: the ones logins returned,
\* tokens signed with another key, and text that is no JWT
ForgedTokens == {jwtSign(1, otherKey, now)}
PresentableTokens == issued \cup ForgedTokens \cup {Word("garbage")}

Headers ==
    {<<>>, <<Word("Bearer")>>, <<Word("Bearer"), Word("")>>}
    \cup {<<Word("Bearer"), t>> : t \in PresentableTokens}
    \cup {<<Word("Basic"), t>> : t \in issued}


\* ------------------------------------------------------------ User model
\* userSchema: username unique and required, password required; a required
\* String is rejected when undefined or empty.  "" stands for both.
UserCreate_NoUniqueIndex(us, username, password) ==
    IF username = "" \/ password = ""
        THEN [ok |-> FALSE, msg |-> "User validation failed", users |-> us]
    ELSE [ok |-> TRUE, msg |-> "",
          users |-> Append(us, [username |-> username, password |-> password])]

UserCreate(us, username, password) ==
    IF username = "" \/ password = ""
        THEN [ok |-> FALSE, msg |-> "User validation failed", users |-> us]
    ELSE IF \E i \in 1..Len(us) : us[i].username = username
        THEN [ok |-> FALSE, msg |-> "E11000 duplicate key error", users |-> us]
    ELSE [ok |-> TRUE, msg |-> "",
          users |-> Append(us, [username |-> username, password |-> password])]

\* User.findOne({ username, password }): the _id of the first match, 0 for null
UserFindOne_ByNameOnly(us, username, password) ==
    LET hit == {i \in 1..Len(us) : us[i].username = username}
    IN  IF hit = {} THEN 0 ELSE CHOOSE i \in hit : \A j \in hit : i <= j

UserFindOne(us, username, password) ==
    LET hit == {i \in 1..Len(us) :
                    us[i].username = username /\ us[i].password = password}
    IN  IF hit = {} THEN 0 ELSE CHOOSE i \in hit : \A j \in hit : i <= j

\* POST /login: the response for a body { username, password } at clock t
LoginResponse(us, username, password, t) ==
    LET id == UserFindOne(us, username, password)
    IN  IF id = 0
            THEN [status |-> 401, msg |-> "Invalid credentials", token |-> Undefined]
        ELSE [status |-> 200, msg |-> "Login successful",
              token |-> jwtSign(id, secretKey, t)]

\* ------------------------------------------------------------ Todo model
LowerChar(c) ==
    CASE c = "X" -> "x"
      [] c = "Y" -> "y"
      [] c = "D" -> "d"
      [] OTHER -> c

\* case-insensitive containment of one plain string in another
ContainsI(pattern, text) ==
    \E i \in 0..(Len(text) - Len(pattern)) :
        \A j \in 1..Len(pattern) : LowerChar(text[i + j]) = LowerChar(pattern[j])

\* { $regex: pattern, $options: "i" }: the pattern is a regular expression
\* that may match anywhere in the text; of the metacharacters, the patterns
\* drawn here use only ".", which matches any one character
RegexI(pattern, text) ==
    \E i \in 0..(Len(text) - Len(pattern)) :
        \A j \in 1..Len(pattern) :
            pattern[j] = "." \/ LowerChar(text[i + j]) = LowerChar(pattern[j])

NoReq ==
    [id |-> 0, title |-> Absent, description |-> Absent, status |-> NoStatus,
     ownerId |-> 0]

\* GET /todos: the filter built from req.query and req.user
ListFilter_CallerOwner(user, q) ==
    [userId |-> IF q.ownerId # 0 THEN q.ownerId ELSE user.userId,
     title |-> IF q.title = Absent \/ q.title = <<>> THEN Absent ELSE q.title,
     description |-> IF q.description = Absent \/ q.description = <<>>
                        THEN Absent ELSE q.description,
     status |-> IF q.status = NoStatus \/ q.status = "" THEN NoStatus ELSE q.status]

ListFilter(user, q) ==
    [userId |-> user.userId,
     title |-> IF q.title = Absent \/ q.title = <<>> THEN Absent ELSE q.title,
     description |-> IF q.description = Absent \/ q.description = <<>>
                        THEN Absent ELSE q.description,
     status |-> IF q.status = NoStatus \/ q.status = "" THEN NoStatus ELSE q.status]

\* Todo.find(filter)
TodoFind(ts, f) ==
    {d \in ts :
        /\ d.userId = f.userId
        /\ f.title # Absent => RegexI(f.title, d.title)
        /\ f.description # Absent => RegexI(f.description, d.description)
        /\ f.status # NoStatus => d.status = f.status}

\* the documents matching { _id: id, userId: req.user.userId }
TodoByIdAndOwner_AnyOwner(ts, id, uid) == {d \in ts : d.id = id}

TodoByIdAndOwner(ts, id, uid) == {d \in ts : d.id = id /\ d.userId = uid}


\* ------------------------------------------------------- the step record
\* what the step just taken was given and what it answered: at is "gate" for
\* a step of authenticateToken (with the handler it runs in the same turn)
\* and "handler" for the rest; revoked tells whether the token of the
\* header was on the blacklist when the step began; status 0 is a request
\* that authenticateToken passed on and that has not answered yet; fault
\* is the error an awaited User or Todo call rejected with, "" for none
Step(at, op, h, username, password, req, status, msg, user, docs, token) ==
    [at |-> at, op |-> op, header |-> h,
     revoked |-> ExtractToken(h) \in Range(invalidatedTokens),
     username |-> username, password |-> password,
     req |-> req, status |-> status, msg |-> msg, user |-> user, docs |-> docs,
     token |-> token, fault |-> ""]

NoStep ==
    [at |-> "none", op |-> "none", header |-> <<>>, revoked |-> FALSE,
     username |-> "", password |-> "", req |-> NoReq, status |-> 0, msg |-> "",
     user |-> NoUser, docs |-> {}, token |-> Undefined, fault |-> ""]

AsyncOps == {"list", "get", "create", "update", "delete"}

\* the bodies and queries the requests are drawn from; an owner term is 0
\* for none or the _id of the first or the second user
OwnerTerms == {0, 1, 2}
IdTerms == 0..MaxTodos
ListQueries ==
    {[id |-> 0, title |-> t, description |-> Absent, status |-> st, ownerId |-> o] :
        t \in {Absent, <<"x">>, <<".">>}, st \in {NoStatus, "pending"}, o \in OwnerTerms}
IdRequests == {[NoReq EXCEPT !.id = i] : i \in IdTerms}
CreateBodies ==
    {[id |-> 0, title |-> t, description |-> d, status |-> st, ownerId |-> o] :
        t \in {Absent, <<"x", "y">>}, d \in {Absent} \cup Descriptions,
        st \in {NoStatus, "", "archived"}, o \in {0}}
UpdateBodies ==
    {[id |-> i, title |-> t, description |-> Absent, status |-> st, ownerId |-> 0] :
        i \in IdTerms, t \in {Absent, <<"X">>}, st \in {NoStatus, "archived"}}

\* ------------------------------------------------------------------ Init
Init ==
    /\ users = <<>>
    /\ todos = {}
    /\ nextTodoId = 1
    /\ invalidatedTokens = <<>>
    /\ now = 0
    /\ issued = {}
    /\ inflight = {}
    /\ last = NoStep

\* the clock advances by an hour, the lifetime of a token
Tick ==
    /\ now + ExpiresIn <= MaxTime * ExpiresIn
    /\ now' = now + ExpiresIn
    /\ last' = NoStep
    /\ UNCHANGED <<users, todos, nextTodoId, invalidatedTokens, issued, inflight>>

\* the clock advances by a second
TickSecond ==
    /\ now % ExpiresIn < MaxSeconds
    /\ now' = now + 1
    /\ last' = NoStep
    /\ UNCHANGED <<users, todos, nextTodoId, invalidatedTokens, issued, inflight>>

\* POST /signup
Signup(username, password) ==
    LET c == UserCreate(users, username, password)
    IN  /\ c.ok => Len(users) < MaxUsers
        /\ users' = c.users
        /\ last' = Step("handler", "signup", <<>>, username, password, NoReq,
                        IF c.ok THEN 201 ELSE 400,
                        IF c.ok THEN "User created successfully" ELSE c.msg,
                        NoUser, {}, Undefined)
        /\ UNCHANGED <<todos, nextTodoId, invalidatedTokens, now, issued, inflight>>

\* POST /login
Login(username, password) ==
    LET r == LoginResponse(users, username, password, now)
    IN  /\ r.status = 200 => Cardinality(issued \cup {r.token}) <= MaxIssued
        /\ issued' = IF r.status = 200 THEN issued \cup {r.token} ELSE issued
        /\ last' = Step("handler", "login", <<>>, username, password, NoReq,
                        r.status, r.msg, NoUser, {}, r.token)
        /\ UNCHANGED <<users, todos, nextTodoId, invalidatedTokens, now, inflight>>

\* invalidatedTokens.push(token)
Push_Replace(arr, token) == <<token>>

Push_Nothing(arr, token) == arr

Push(arr, token) == Append(arr, token)

\* POST /logout: authenticateToken and the handler run in one turn
Logout(h) ==
    LET g == authenticateToken(h)
    IN  /\ invalidatedTokens' =
               IF g.status = 0 THEN Push(invalidatedTokens, ExtractToken(h))
               ELSE invalidatedTokens
        /\ last' = IF g.status = 0
                       THEN Step("gate", "logout", h, "", "", NoReq, 200, "Logout successful",
                                 g.user, {}, Undefined)
                   ELSE Step("gate", "logout", h, "", "", NoReq, g.status, g.msg,
                             NoUser, {}, Undefined)
        /\ UNCHANGED <<users, todos, nextTodoId, now, issued, inflight>>

\* req.user as the handlers of the todo routes read it: they read userId
\* and nothing else, so a request in flight keeps userId and not iat, exp
HandlerUser(user) == [userId |-> user.userId, iat |-> 0, exp |-> 0]

\* authenticateToken in front of an async todo route: it answers 401/403 or
\* calls next() with req.user bound, and the handler runs up to its await.
\* The gate does not read the query or the body, so the request's query and
\* body are drawn when its handler step reads them.
Authenticate(op, h) ==
    LET g == authenticateToken(h)
    IN  /\ g.status = 0 => Cardinality(inflight) < MaxInflight
        /\ inflight' =
               IF g.status = 0
                   THEN inflight \cup {[op |-> op, user |-> HandlerUser(g.user)]}
               ELSE inflight
        /\ last' = Step("gate", op, h, "", "", NoReq, g.status, g.msg, g.user, {}, Undefined)
        /\ UNCHANGED <<users, todos, nextTodoId, invalidatedTokens, now, issued>>

\* GET /todos after the await
ListTodos(r, q) ==
    /\ r.op = "list"
    /\ inflight' = inflight \ {r}
    /\ last' = Step("handler", "list", <<>>, "", "", q, 200, "", r.user,
                    TodoFind(todos, ListFilter(r.user, q)), Undefined)
    /\ UNCHANGED <<users, todos, nextTodoId, invalidatedTokens, now, issued>>

\* GET /todos/:id after the await; id 0 is a string that is no ObjectId
GetTodo(r, q) ==
    LET hit == TodoByIdAndOwner(todos, q.id, r.user.userId)
    IN  /\ r.op = "get"
        /\ inflight' = inflight \ {r}
        /\ last' = IF q.id = 0
                       THEN Step("handler", "get", <<>>, "", "", q, 400, "Cast to ObjectId failed",
                                 r.user, {}, Undefined)
                   ELSE IF hit = {}
                       THEN Step("handler", "get", <<>>, "", "", q, 404, "Todo not found",
                                 r.user, {}, Undefined)
                   ELSE Step("handler", "get", <<>>, "", "", q, 200, "", r.user, hit, Undefined)
        /\ UNCHANGED <<users, todos, nextTodoId, invalidatedTokens, now, issued>>

\* !title || !description
MissingFields(b) == b.title \in {Absent, <<>>} \/ b.description \in {Absent, <<>>}

\* status && !["pending", "completed"].includes(status)
InvalidStatus(status) == status \notin {NoStatus, ""} /\ status \notin StatusEnum

\* todoSchema on Todo.create: title and description are required (not
\* undefined, not empty) and the enum validator runs on every defined status
SchemaRejects_Never(title, description, status) == FALSE

SchemaRejects(title, description, status) ==
    \/ title \in {Absent, <<>>}
    \/ description \in {Absent, <<>>}
    \/ status # NoStatus /\ status \notin StatusEnum

\* the userId of the document POST /todos creates
CreateOwner_FromBody(user, b) == IF b.ownerId # 0 THEN b.ownerId ELSE user.userId

CreateOwner(user, b) == user.userId

\* POST /todos: the validation of the body, then Todo.create
CreateTodo(r, b) ==
    LET
        doc == [id |-> nextTodoId, userId |-> CreateOwner(r.user, b), title |-> b.title,
                description |-> b.description,
                status |-> IF b.status = NoStatus THEN "pending" ELSE b.status]
        missing == MissingFields(b)
        badStatus == InvalidStatus(b.status)
        schemaFails == SchemaRejects(b.title, b.description, b.status)
        stored == ~missing /\ ~badStatus /\ ~schemaFails
    IN  /\ r.op = "create"
        /\ stored => nextTodoId <= MaxTodos
        /\ inflight' = inflight \ {r}
        /\ todos' = IF stored THEN todos \cup {doc} ELSE todos
        /\ nextTodoId' = IF stored THEN nextTodoId + 1 ELSE nextTodoId
        /\ last' = IF missing
                       THEN Step("handler", "create", <<>>, "", "", b, 400,
                                 "Title and description are required", r.user, {}, Undefined)
                   ELSE IF badStatus
                       THEN Step("handler", "create", <<>>, "", "", b, 400, "Invalid status",
                                 r.user, {}, Undefined)
                   ELSE IF schemaFails
                       THEN Step("handler", "create", <<>>, "", "", b, 400, "Todo validation failed",
                                 r.user, {}, Undefined)
                   ELSE Step("handler", "create", <<>>, "", "", b, 201, "", r.user, {doc}, Undefined)
        /\ UNCHANGED <<users, invalidatedTokens, now, issued>>

\* PUT /todos/:id after the await: findOneAndUpdate without validators; a
\* field that is undefined in the body is left as it is
UpdateTodo(r, b) ==
    LET hit == TodoByIdAndOwner(todos, b.id, r.user.userId)
        new == {[d EXCEPT !.title = IF b.title = Absent THEN @ ELSE b.title,
                          !.description =
                              IF b.description = Absent THEN @ ELSE b.description,
                          !.status = IF b.status = NoStatus THEN @ ELSE b.status] :
                    d \in hit}
    IN  /\ r.op = "update"
        /\ inflight' = inflight \ {r}
        /\ todos' = IF b.id = 0 THEN todos ELSE (todos \ hit) \cup new
        /\ last' = IF b.id = 0
                       THEN Step("handler", "update", <<>>, "", "", b, 400, "Cast to ObjectId failed",
                                 r.user, {}, Undefined)
                   ELSE IF hit = {}
                       THEN Step("handler", "update", <<>>, "", "", b, 404, "Todo not found",
                                 r.user, {}, Undefined)
                   ELSE Step("handler", "update", <<>>, "", "", b, 200, "", r.user, new, Undefined)
        /\ UNCHANGED <<users, nextTodoId, invalidatedTokens, now, issued>>

\* DELETE /todos/:id after the await
DeleteTodo(r, q) ==
    LET hit == TodoByIdAndOwner(todos, q.id, r.user.userId)
    IN  /\ r.op = "delete"
        /\ inflight' = inflight \ {r}
        /\ todos' = IF q.id = 0 THEN todos ELSE todos \ hit
        /\ last' = IF q.id = 0
                       THEN Step("handler", "delete", <<>>, "", "", q, 400,
                                 "Cast to ObjectId failed", r.user, {}, Undefined)
                   ELSE IF hit = {}
                       THEN Step("handler", "delete", <<>>, "", "", q, 404, "Todo not found",
                                 r.user, {}, Undefined)
                   ELSE Step("handler", "delete", <<>>, "", "", q, 200,
                             "Todo deleted successfully", r.user, {}, Undefined)
        /\ UNCHANGED <<users, nextTodoId, invalidatedTokens, now, issued>>

\* the errors an awaited User or Todo call can reject with when the
\* database fails
DbErrors == {"MongoNetworkError: connection closed"}

\* POST /signup when User.create rejects with e: the catch answers 400 with
\* err.message
SignupFails(username, password, e) ==
    /\ last' = [Step("handler", "signup", <<>>, username, password, NoReq, 400, e,
                     NoUser, {}, Undefined) EXCEPT !.fault = e]
    /\ UNCHANGED <<users, todos, nextTodoId, invalidatedTokens, now, issued, inflight>>

\* POST /login when User.findOne rejects with e
LoginFails(username, password, e) ==
    /\ last' = [Step("handler", "login", <<>>, username, password, NoReq, 400, e,
                     NoUser, {}, Undefined) EXCEPT !.fault = e]
    /\ UNCHANGED <<users, todos, nextTodoId, invalidatedTokens, now, issued, inflight>>

\* a todo route when its awaited Todo call rejects with e: every handler's
\* catch answers 400 with err.message
TodoCallFails(r, e) ==
    /\ inflight' = inflight \ {r}
    /\ last' = [Step("handler", r.op, <<>>, "", "", NoReq, 400, e, r.user, {}, Undefined)
                    EXCEPT !.fault = e]
    /\ UNCHANGED <<users, todos, nextTodoId, invalidatedTokens, now, issued>>

\* requests that concern the tokens: users sign up and log in with their own
\* password, log out, and call a todo route (the list route) through the
\* gate, with any header, while the clock runs
Next ==
    \/ Tick
    \/ \E u \in Usernames : Signup(u, "pw1")
    \/ \E u \in Usernames : Login(u, "pw1")
    \/ \E h \in Headers : Logout(h)
    \/ \E h \in Headers : Authenticate("list", h)
    \/ \E r \in inflight : ListTodos(r, NoReq)

Spec == Init /\ [][Next]_vars

\* requests that concern the credentials: sign up and log in with any
\* username and password, also missing ones, while the clock runs
NextUsers ==
    \/ Tick
    \/ \E u \in Usernames \cup {""}, p \in Passwords \cup {""} : Signup(u, p)
    \/ \E u \in Usernames \cup {""}, p \in Passwords \cup {""} : Login(u, p)

SpecUsers == Init /\ [][NextUsers]_vars

\* requests that concern the todos of users who signed up and logged in with
\* their own password, each presenting a token a login returned
NextTodos ==
    \/ \E u \in Usernames : Signup(u, "pw1")
    \/ \E u \in Usernames : Login(u, "pw1")
    \/ \E op \in AsyncOps, t \in issued : Authenticate(op, <<Word("Bearer"), t>>)
    \/ \E r \in inflight, q \in ListQueries : ListTodos(r, q)
    \/ \E r \in inflight, q \in IdRequests : GetTodo(r, q)
    \/ \E r \in inflight, b \in CreateBodies : CreateTodo(r, b)
    \/ \E r \in inflight, b \in UpdateBodies : UpdateTodo(r, b)
    \/ \E r \in inflight, q \in IdRequests : DeleteTodo(r, q)

SpecTodos == Init /\ [][NextTodos]_vars

\* one whole session of one user: alice signs up, logs in once, calls every gated
\* route and logs out, with no header or with a "Bearer" header carrying any
\* token, while the clock runs; the bodies are well-formed, and a create
\* body may name an owner
SessionHeaders == {<<>>} \cup {<<Word("Bearer"), t>> : t \in PresentableTokens}
SessionCreateBodies ==
    {[id |-> 0, title |-> <<"x", "y">>, description |-> <<"d">>, status |-> NoStatus,
      ownerId |-> o] : o \in {0, 2}}
SessionUpdateBodies ==
    {[id |-> i, title |-> <<"x", "y">>, description |-> Absent, status |-> NoStatus,
      ownerId |-> 0] : i \in 1..MaxTodos}
SessionIdRequests == {[NoReq EXCEPT !.id = i] : i \in 1..MaxTodos}

NextSession ==
    \/ Tick
    \/ Signup("alice", "pw1")
    \/ issued = {} /\ Login("alice", "pw1")
    \/ \E h \in SessionHeaders : Logout(h)
    \/ \E op \in AsyncOps, h \in SessionHeaders : Authenticate(op, h)
    \/ \E r \in inflight : ListTodos(r, NoReq)
    \/ \E r \in inflight, q \in SessionIdRequests : GetTodo(r, q)
    \/ \E r \in inflight, b \in SessionCreateBodies : CreateTodo(r, b)
    \/ \E r \in inflight, b \in SessionUpdateBodies : UpdateTodo(r, b)
    \/ \E r \in inflight, q \in SessionIdRequests : DeleteTodo(r, q)

SpecSession == Init /\ [][NextSession]_vars

\* one user's requests against a database that may fail: any awaited call
\* either completes or rejects
NextFaults ==
    \/ Signup("alice", "pw1")
    \/ Login("alice", "pw1")
    \/ \E e \in DbErrors : SignupFails("alice", "pw1", e)
    \/ \E e \in DbErrors : LoginFails("alice", "pw1", e)
    \/ \E op \in AsyncOps, t \in issued : Authenticate(op, <<Word("Bearer"), t>>)
    \/ \E r \in inflight, e \in DbErrors : TodoCallFails(r, e)
    \/ \E r \in inflight : ListTodos(r, NoReq)
    \/ \E r \in inflight, q \in SessionIdRequests : GetTodo(r, q)
    \/ \E r \in inflight, b \in SessionCreateBodies : CreateTodo(r, b)
    \/ \E r \in inflight, b \in SessionUpdateBodies : UpdateTodo(r, b)
    \/ \E r \in inflight, q \in SessionIdRequests : DeleteTodo(r, q)

SpecFaults == Init /\ [][NextFaults]_vars

\* logins and logouts of both users, seconds and hours apart, with the
\* tokens the logins issued
NextRevocation ==
    \/ Tick
    \/ TickSecond
    \/ \E u \in Usernames : Signup(u, "pw1")
    \/ \E u \in Usernames : Login(u, "pw1")
    \/ \E t \in issued : Logout(<<Word("Bearer"), t>>)

SpecRevocation == Init /\ [][NextRevocation]_vars

\* =================================================================== C1
\* the token a header presents, as authenticateToken reads it
Presented(step) == ExtractToken(step.header)

\* a token signed with the server's key
Signed(t) == t.fmt = "jwt" /\ t.key = secretKey

\* C1: once a logout of token t has completed (t is on the blacklist), every
\* later step of the gate that is presented t, a logout or a todo request,
\* whatever the scheme word, answers 401 and passes nothing on to a
\* handler: no request joins the ones in flight and the blacklist stays as
\* it is. The token's expiry plays no part.
C1_RevokedTokenRejected ==
    [][(last'.at = "gate" /\ Presented(last') \in Range(invalidatedTokens))
          => /\ last'.status = 401
             /\ inflight' = inflight
             /\ invalidatedTokens' = invalidatedTokens]_vars

\* a list request presenting a revoked token that has not expired was
\* answered 401
C1_Witness ==
    /\ last.at = "gate"
    /\ last.op = "list"
    /\ Presented(last) \in Range(invalidatedTokens)
    /\ now < Presented(last).exp
    /\ last.status = 401

\* =================================================================== C2
\* the answer of a get, update or delete that found nothing
NotFound(step) == step.status = 404 /\ step.msg = "Todo not found" /\ step.docs = {}

\* C2: a handler step running for principal A leaves every record r of
\* another owner in the store unchanged and never puts r in its response,
\* also when a list query names an owner; and a get, update or delete of
\* r's id is answered 404 "Todo not found", the same answer as for an id
\* that no record has.
C2_OtherOwnersRecordsUntouched ==
    [][last'.at = "handler" /\ last'.op \in AsyncOps
          => /\ \A r \in todos :
                    r.userId # last'.user.userId
                        => /\ r \in todos'
                           /\ r \notin last'.docs
                           /\ (last'.op \in {"get", "update", "delete"}
                                   /\ last'.req.id = r.id) => NotFound(last')
             /\ (/\ last'.op \in {"get", "update", "delete"}
                 /\ last'.req.id # 0
                 /\ \A d \in todos : d.id # last'.req.id) => NotFound(last')]_vars

\* a delete by A of the id of a record of B was answered 404 and the record
\* is still there
C2_Witness ==
    /\ last.at = "handler"
    /\ last.op = "delete"
    /\ NotFound(last)
    /\ \E r \in todos : r.id = last.req.id /\ r.userId # last.user.userId

\* =================================================================== C3
\* C3: for every user record, the token a login with that record's username
\* and password returns now, presented at once as "Bearer <token>", passes
\* the gate and binds a principal whose userId is the record's _id, unless
\* that very token string is already on the blacklist.
C3_IssueThenVerifyBindsUser ==
    \A i \in 1..Len(users) :
        LET r == LoginResponse(users, users[i].username, users[i].password, now)
            g == authenticateToken(<<Word("Bearer"), r.token>>)
        IN  /\ r.status = 200
            /\ r.token \notin Range(invalidatedTokens)
                   => g.status = 0 /\ g.user.userId = i

\* a token issued at this second was presented and the request went on to its
\* handler as the second user
C3_Witness ==
    /\ last.at = "gate"
    /\ last.status = 0
    /\ Presented(last) \in issued
    /\ Presented(last).iat = now
    /\ last.user.userId = 2
    /\ Len(users) = 2
    /\ \E r \in inflight : r.user.userId = 2

\* =================================================================== C4
\* the gate was presented a token signed with the server's key whose
\* expiresAt is earlier than the clock
ExpiredPresented ==
    /\ last.at = "gate"
    /\ Signed(Presented(last))
    /\ Presented(last).exp < now

\* C4 as stated: every correctly signed token whose expiresAt is earlier than
\* the current time is answered 403, the expiry reason.
C4_AsStated == ExpiredPresented => last.status = 403

\* C4: a correctly signed token whose expiresAt is earlier than the current
\* time is rejected: with 403 "Forbidden" when it is not on the blacklist,
\* and with 401 "Token has been invalidated" when it is, because the
\* blacklist is looked up first.
C4_ExpiredTokenRejected ==
    ExpiredPresented =>
        IF last.revoked
            THEN last.status = 401 /\ last.msg = "Token has been invalidated"
        ELSE last.status = 403 /\ last.msg = "Forbidden"

\* an expired token that was never revoked was answered 403
C4_Witness ==
    /\ ExpiredPresented
    /\ ~last.revoked
    /\ last.status = 403

\* =================================================================== C5
\* C5 as stated: a logout presenting a token that a logout has already put
\* on the blacklist is answered as the first one was, with the success
\* acknowledgment.
C5_AsStated ==
    (last.at = "gate" /\ last.op = "logout"
        /\ Presented(last) \in Range(invalidatedTokens))
        => last.status = 200 /\ last.msg = "Logout successful"

\* C5: revoking is idempotent in state, not in the response: a logout
\* presenting a token that is already on the blacklist is answered 401
\* "Token has been invalidated" and pushes nothing, so no token is on the
\* blacklist twice.
C5_SecondLogoutRejected ==
    /\ (last.at = "gate" /\ last.op = "logout" /\ last.revoked)
           => last.status = 401 /\ last.msg = "Token has been invalidated"
    /\ \A i, j \in 1..Len(invalidatedTokens) :
           invalidatedTokens[i] = invalidatedTokens[j] => i = j

\* a second logout with an unexpired token was answered 401
C5_Witness ==
    /\ last.at = "gate"
    /\ last.op = "logout"
    /\ last.revoked
    /\ now < Presented(last).exp
    /\ last.status = 401

\* =================================================================== C6
\* C6: a logout whose header is "Bearer <token>" with a token that is signed
\* with the server's key, not expired and not on the blacklist when the
\* request arrives is answered 200 "Logout successful", and the token is on
\* the blacklist when it has answered.
C6_LogoutRevokes ==
    (/\ last.at = "gate"
     /\ last.op = "logout"
     /\ Len(last.header) = 2
     /\ last.header[1] = Word("Bearer")
     /\ Signed(Presented(last))
     /\ now < Presented(last).exp
     /\ ~last.revoked)
        => /\ last.status = 200
           /\ last.msg = "Logout successful"
           /\ Presented(last) \in Range(invalidatedTokens)

\* a logout was answered 200 and its token is on the blacklist
C6_Witness ==
    /\ last.at = "gate"
    /\ last.op = "logout"
    /\ Len(last.header) = 2
    /\ last.header[1] = Word("Bearer")
    /\ ~last.revoked
    /\ last.status = 200
    /\ Presented(last) \in Range(invalidatedTokens)

\* =================================================================== C7
\* C7: the gate answers a failure with 401 or 403 and nothing else: no token
\* (no header, or no second word) and a token on the blacklist give 401; a
\* token that is no JWT, one signed with another key and an expired one give
\* 403 when not on the blacklist; a token both on the blacklist and expired
\* gives 401.
C7_FailureClasses ==
    last.at = "gate" =>
        LET t == Presented(last)
            expired == Signed(t) /\ t.exp <= now
        IN  /\ last.status \in {0, 200, 401, 403}
            /\ (last.status = 200 => last.op = "logout")
            /\ Falsy(t) => last.status = 401 /\ last.msg = "Unauthorized"
            /\ last.revoked
                   => last.status = 401 /\ last.msg = "Token has been invalidated"
            /\ (~Falsy(t) /\ ~last.revoked /\ t.fmt # "jwt") => last.status = 403
            /\ (~last.revoked /\ t.fmt = "jwt" /\ t.key # secretKey) => last.status = 403
            /\ (~last.revoked /\ expired) => last.status = 403
            /\ (last.revoked /\ expired) => last.status = 401
            /\ last.status \in {401, 403}
                   <=> (Falsy(t) \/ last.revoked \/ ~Signed(t) \/ expired)

\* a token both revoked and expired was answered 401
C7_Witness ==
    /\ last.at = "gate"
    /\ last.revoked
    /\ Signed(Presented(last))
    /\ Presented(last).exp <= now
    /\ last.status = 401

\* =================================================================== C8
\* C8 as stated: a request whose authorization header is absent, or is not
\* the word "Bearer" followed by a token, is answered 401 "Unauthorized",
\* also when the word after another scheme is a valid token.
C8_AsStated ==
    (/\ last.at = "gate"
     /\ \/ Len(last.header) < 2
        \/ last.header[1] # Word("Bearer")
        \/ Falsy(last.header[2]))
        => last.status = 401 /\ last.msg = "Unauthorized"

\* =================================================================== C9
\* the usernames that have a record
KnownNames(us) == {us[i].username : i \in 1..Len(us)}

\* username has a record and password is not that record's secret
WrongSecret(us, username, password) ==
    /\ username \in KnownNames(us)
    /\ \A i \in 1..Len(us) : us[i].username = username => us[i].password # password

\* C9: a login with the username of a record and a secret that is not the
\* record's, and a login with a username that has no record, get the same
\* response, 401 "Invalid credentials" without a token, and no token joins
\* the issued ones.
C9_LoginFailuresAlike ==
    LET inputs == (Usernames \cup {""}) \X (Passwords \cup {""})
    IN  /\ \A a, b \in inputs :
               (WrongSecret(users, a[1], a[2]) /\ b[1] \notin KnownNames(users))
                   => LoginResponse(users, a[1], a[2], now)
                          = LoginResponse(users, b[1], b[2], now)
        /\ (/\ last.op = "login"
            /\ \/ WrongSecret(users, last.username, last.password)
               \/ last.username \notin KnownNames(users))
               => /\ last.status = 401
                  /\ last.msg = "Invalid credentials"
                  /\ last.token = Undefined
        /\ Undefined \notin issued

\* a login with alice's username and a wrong secret was answered 401 while
\* bob has no record
C9_Witness ==
    /\ last.op = "login"
    /\ WrongSecret(users, last.username, last.password)
    /\ last.password # ""
    /\ "bob" \notin KnownNames(users)
    /\ last.status = 401

\* ================================================================== C10
\* no two user records share a username
UniqueUsernames(us) ==
    \A i, j \in 1..Len(us) : us[i].username = us[j].username => i = j

\* C10 as stated: no two user records ever share a username, and a signup
\* with a username that has a record fails with the duplicate-key error,
\* creates no record and leaves the stored secret as it is.
C10_AsStated ==
    [][/\ UniqueUsernames(users')
       /\ (last'.op = "signup" /\ last'.username \in KnownNames(users))
              => /\ last'.status = 400
                 /\ last'.msg = "E11000 duplicate key error"
                 /\ users' = users]_vars

\* C10: no two user records ever share a username, and a signup with a
\* username that has a record fails with status 400, creates no record and
\* leaves the stored secret as it is; its error is the duplicate-key error
\* when the body has a password and the schema's validation error when the
\* password is missing.
C10_UniqueUsernames ==
    [][/\ UniqueUsernames(users')
       /\ (last'.op = "signup" /\ last'.username \in KnownNames(users))
              => /\ last'.status = 400
                 /\ last'.msg = IF last'.password = "" THEN "User validation failed"
                                ELSE "E11000 duplicate key error"
                 /\ users' = users]_vars

\* a signup with alice's username and another secret failed with the
\* duplicate-key error and alice's record keeps its secret
C10_Witness ==
    /\ last.op = "signup"
    /\ last.status = 400
    /\ last.msg = "E11000 duplicate key error"
    /\ \E i \in 1..Len(users) :
           users[i].username = last.username /\ users[i].password # last.password

\* ================================================================== C11
\* a list query without title, description and status terms
Unfiltered(q) == q.title = Absent /\ q.description = Absent /\ q.status = NoStatus

\* C11: a create answered 201 for principal A adds one record whose userId
\* is A's id, whatever owner the body names; a record leaves the store only
\* by a delete of its id by its owner, and every unfiltered list for A
\* returns all of A's records in the store; a create presenting a token
\* that a logout has put on the blacklist is answered 401, reaches no
\* handler and stores nothing.
C11_CreateOwnedListedUntilDeleted ==
    [][/\ (last'.at = "handler" /\ last'.op = "create" /\ last'.status = 201)
              => \E d \in todos' \ todos :
                     /\ d.userId = last'.user.userId
                     /\ last'.docs = {d}
                     /\ todos' = todos \cup {d}
       /\ (last'.at = "handler" /\ last'.op = "list" /\ Unfiltered(last'.req))
              => \A d \in todos : d.userId = last'.user.userId => d \in last'.docs
       /\ \A d \in todos :
              (\A e \in todos' : e.id # d.id)
                  => /\ last'.at = "handler"
                     /\ last'.op = "delete"
                     /\ last'.user.userId = d.userId
                     /\ last'.req.id = d.id
       /\ (last'.at = "gate" /\ last'.op = "create" /\ last'.revoked)
              => /\ last'.status = 401
                 /\ todos' = todos
                 /\ inflight' = inflight]_vars

\* a create presenting a logged-out, unexpired token was answered 401 while
\* the record created with that token, with another owner named in the body,
\* is in the store
C11_Witness ==
    /\ last.at = "gate"
    /\ last.op = "create"
    /\ last.revoked
    /\ now < Presented(last).exp
    /\ last.status = 401
    /\ \E d \in todos : d.userId = Presented(last).userId

\* ================================================================== C12
\* C12: a create whose status is given and is neither "pending" nor
\* "completed", or whose title or description is missing, is answered 400
\* and leaves the Todo collection as it is.
C12_InvalidCreateRejected ==
    [][(/\ last'.at = "handler"
        /\ last'.op = "create"
        /\ last'.fault = ""
        /\ \/ last'.req.status # NoStatus /\ last'.req.status \notin StatusEnum
           \/ last'.req.title \in {Absent, <<>>}
           \/ last'.req.description \in {Absent, <<>>})
           => /\ last'.status = 400
              /\ todos' = todos
              /\ nextTodoId' = nextTodoId]_vars

\* a create with status "archived" and with title and description given was
\* answered 400
C12_Witness ==
    /\ last.at = "handler"
    /\ last.op = "create"
    /\ last.req.status = "archived"
    /\ ~MissingFields(last.req)
    /\ last.status = 400
    /\ last.msg = "Invalid status"

\* ================================================================== C13
\* C13 as stated: a step in which an awaited User or Todo call rejected is
\* answered 500 "Internal server error", without the error's message.
C13_AsStated ==
    last.fault # "" => last.status = 500 /\ last.msg = "Internal server error"

\* ================================================================== C14
\* a query term that is given: neither undefined nor empty
Given(term) == term # Absent /\ term # <<>>

\* C14 as stated: a list for principal A returns exactly A's records whose
\* title and description contain the given terms, case ignored, and whose
\* status equals the given status.
C14_AsStated ==
    (last.at = "handler" /\ last.op = "list" /\ last.fault = "")
        => last.docs =
               {d \in todos :
                   /\ d.userId = last.user.userId
                   /\ Given(last.req.title) => ContainsI(last.req.title, d.title)
                   /\ Given(last.req.description)
                          => ContainsI(last.req.description, d.description)
                   /\ last.req.status \notin {NoStatus, ""}
                          => d.status = last.req.status}

\* ================================================================== C15
\* C15 as stated: every stored record has a status of the enum and a
\* non-empty title and description, and an update of a record of the caller
\* whose status is outside the enum or that omits title or description is
\* answered 400.
C15_AsStated ==
    /\ \A d \in todos :
           /\ d.status \in StatusEnum
           /\ d.title \notin {Absent, <<>>}
           /\ d.description \notin {Absent, <<>>}
    /\ (/\ last.at = "handler"
        /\ last.op = "update"
        /\ last.fault = ""
        /\ \E d \in todos : d.id = last.req.id /\ d.userId = last.user.userId
        /\ InvalidStatus(last.req.status) \/ MissingFields(last.req))
           => last.status = 400

\* ================================================================== C16
\* the gate's answer to "Bearer <t>" in the current state
Gate(t) == authenticateToken(<<Word("Bearer"), t>>)

\* C16: once the gate rejects an issued token, as revoked (401) or as
\* expired (403), every later state gives that token the same answer: no
\* step makes it valid again, an expired token never turns revoked and a
\* revoked token stays revoked when its expiry time passes.
C16_ValidityNeverRegained ==
    [][\A t \in issued : Gate(t).status # 0 => Gate(t)' = Gate(t)]_vars

\* a second logout presenting a token that was logged out before it expired
\* was answered as revoked after its expiry time had passed, while another
\* issued token is rejected as expired
C16_Witness ==
    /\ last.at = "gate"
    /\ last.op = "logout"
    /\ last.revoked
    /\ Presented(last).exp < now
    /\ last.status = 401
    /\ last.msg = "Token has been invalidated"
    /\ \E t \in issued : Gate(t).status = 403

\* ================================================================== C17
\* C17: the blacklist is empty at the start, every step keeps all of its
\* members, and a step that changes it is a logout answered 200.
C17_BlacklistGrowsByLogoutOnly ==
    /\ invalidatedTokens = <<>>
    /\ [][/\ Range(invalidatedTokens) \subseteq Range(invalidatedTokens')
          /\ invalidatedTokens' # invalidatedTokens
                 => last'.op = "logout" /\ last'.status = 200]_vars

\* a second logout has just put a second token on the blacklist
C17_Witness ==
    /\ Len(invalidatedTokens) = 2
    /\ invalidatedTokens[1] # invalidatedTokens[2]
    /\ last.op = "logout"
    /\ last.status = 200
    /\ Presented(last) = invalidatedTokens[2]

\* ================================================================== C18
\* the token of a gate step is missing, on the blacklist before the step,
\* malformed, badly signed or expired
FailsAuthentication(step, revoked, t) ==
    \/ Falsy(Presented(step))
    \/ revoked
    \/ ~Signed(Presented(step))
    \/ Presented(step).exp <= t

\* C18: a list, get, create, update, delete or logout request whose token
\* is missing, revoked, malformed, badly signed or expired is answered 401
\* or 403 by the gate and changes neither the requests in flight, the Todo
\* collection nor the blacklist; a handler of a todo route runs only for a
\* request the gate has passed on; login and signup carry no token, and a
\* login changes neither the collections nor the blacklist.
C18_GateInFrontOfHandlers ==
    [][/\ (last'.at = "gate" /\ FailsAuthentication(last', last'.revoked, now))
              => /\ last'.status \in {401, 403}
                 /\ inflight' = inflight
                 /\ todos' = todos
                 /\ nextTodoId' = nextTodoId
                 /\ invalidatedTokens' = invalidatedTokens
       /\ (last'.at = "handler" /\ last'.op \in AsyncOps)
              => \E r \in inflight :
                     /\ r.op = last'.op
                     /\ r.user = last'.user
                     /\ inflight' = inflight \ {r}
       /\ \A r \in inflight' \ inflight :
              last'.at = "gate" /\ last'.status = 0 /\ last'.op = r.op
       /\ last'.op \in {"login", "signup"}
              => last'.header = <<>> /\ inflight' = inflight
       /\ last'.op = "login"
              => /\ users' = users
                 /\ todos' = todos
                 /\ nextTodoId' = nextTodoId
                 /\ invalidatedTokens' = invalidatedTokens]_vars

\* a delete presenting an expired token that is not on the blacklist was
\* answered 403 while its owner's record is in the store
C18_Witness ==
    /\ last.at = "gate"
    /\ last.op = "delete"
    /\ Signed(Presented(last))
    /\ ~last.revoked
    /\ Presented(last).exp <= now
    /\ last.status = 403
    /\ \E d \in todos : d.userId = Presented(last).userId

\* ================================================================== C19
\* C19: a logout answered 200 adds exactly its token to the members of the
\* blacklist and drops none, and pushing two different issued tokens in
\* either order gives the same members, both tokens among them.
C19_LogoutsCommute ==
    [][/\ (last'.op = "logout" /\ last'.status = 200)
              => Range(invalidatedTokens')
                     = Range(invalidatedTokens) \cup {Presented(last')}
       /\ \A t1, t2 \in issued :
              t1 # t2
                  => /\ Range(Push(Push(invalidatedTokens, t1), t2))
                            = Range(Push(Push(invalidatedTokens, t2), t1))
                     /\ {t1, t2} \subseteq Range(Push(Push(invalidatedTokens, t1), t2))]_vars

\* two different tokens were logged out while both were unexpired, and both
\* are on the blacklist
C19_Witness ==
    /\ last.op = "logout"
    /\ last.status = 200
    /\ Cardinality(Range(invalidatedTokens)) = 2
    /\ \A t \in Range(invalidatedTokens) : t \in issued /\ now < t.exp

\* ================================================================== C20
\* C20: a logout answered 200 changes the gate's answer for the token it
\* presented, to 401, and for no other issued token, whether that token
\* belongs to the same user or to another.
C20_RevocationPerToken ==
    [][\A t1 \in issued :
           (last'.op = "logout" /\ last'.status = 200 /\ Presented(last') = t1)
               => /\ Gate(t1)'.status = 401
                  /\ \A t2 \in issued \ {t1} : Gate(t2)' = Gate(t2)]_vars

\* a user holding two unexpired tokens has logged out with one of them and
\* the gate still accepts the other
C20_Witness ==
    /\ last.op = "logout"
    /\ last.status = 200
    /\ \E t2 \in issued :
           /\ t2 # Presented(last)
           /\ t2.userId = Presented(last).userId
           /\ now < t2.exp
           /\ Gate(t2).status = 0

====
